---- MODULE Spec2Model ----
(***************************************************************************)
(* Cart-to-order checkout engine and order lifecycle of the My Local Mart  *)
(* back end (Express routes over Mongoose models).                         *)
(*                                                                         *)
(* Every request handler is an async function: the code between two        *)
(* awaits runs without interruption, and other requests interleave at the  *)
(* awaits.  One action of this module is one such stretch of a handler,    *)
(* ending at the database operation it awaits.  A request's arrival is     *)
(* merged with its first database read (nothing is visible in between).    *)
(* order.save() is modelled as the source reads: the pre('save') hook      *)
(* runs, then the document is written.                                     *)
(***************************************************************************)
EXTENDS Integers, Sequences, FiniteSets, TLC

(***************************************************************************)
(* Bounds of the model.                                                    *)
(***************************************************************************)
MaxStock == 2      \* initial stock of a product is in 0..MaxStock
MaxOps == 2        \* requests started in one behaviour
MaxFail == 1       \* database operations that throw in one behaviour
MaxMixOps == 3     \* requests started in one behaviour of checkouts and POST /add

Customers == {"c1", "c2"}
Stores == {"s1", "s2"}
Products == {"p1", "p2", "p3"}
\* the requests in flight at the same time
Req == {1, 2}

\* product.store: p1 and p2 are sold by s1, p3 by s2
ProductStore == [p1 |-> "s1", p2 |-> "s1", p3 |-> "s2"]
\* store.owner
StoreOwner == [s1 |-> "o1", s2 |-> "o2"]
Owners == {"o1", "o2"}
\* product.pricing.sellingPrice at checkout time
SellingPrice == [p1 |-> 12, p2 |-> 20, p3 |-> 50]
\* the price captured in the cart line when the product was added
\* (p1's catalog price has changed since)
CartPrice == [p1 |-> 10, p2 |-> 20, p3 |-> 50]
\* store.services.deliveryFee
StoreFee == [s1 |-> 5, s2 |-> 0]

VARIABLES
    products,   \* Product collection: product id -> document
    stores,     \* Store collection: store id -> document
    carts,      \* Cart collection: customer -> items of the cart document that
                \* Cart.findOne({ user }) returns (<<>> while there is none)
    cartMeta,   \* Cart collection, per customer: whether a cart document exists,
                \* its version (__v), and the items of further documents of
                \* the same user
    orders,     \* Order collection: sequence of documents, _id = position
    req,        \* per request slot: position in the handler and its locals
    resp,       \* the response sent last: [kind, res]
    stock0,     \* history: inventory.stock of every product in the initial state
    restored,   \* history: per order, per product, quantity added back by cancel
    added,      \* history: <<customer, product>> of the POST /add requests answered 200
    ops,        \* history: number of requests started
    fails,      \* history: number of database operations that threw
    serial,     \* TRUE: the requests of this behaviour are served one at a time
    limit       \* the number of requests that arrive in this behaviour

vars == <<products, stores, carts, cartMeta, orders, req, resp, stock0, restored, added, ops, fails, serial, limit>>

(***************************************************************************)
(* Helpers                                                                 *)
(***************************************************************************)
RECURSIVE SumSeq(_)
SumSeq(s) == IF s = <<>> THEN 0 ELSE Head(s) + SumSeq(Tail(s))

\* quantity of product p on the items of a cart or an order
RECURSIVE QtyOf(_, _)
QtyOf(items, p) ==
    IF items = <<>> THEN 0
    ELSE (IF Head(items).product = p THEN Head(items).quantity ELSE 0)
         + QtyOf(Tail(items), p)

ProductsOf(items) == {items[i].product : i \in DOMAIN items}

RECURSIVE SelectItems(_, _)
SelectItems(items, s) ==
    IF items = <<>> THEN <<>>
    ELSE IF Head(items).store = s
         THEN <<Head(items)>> \o SelectItems(Tail(items), s)
         ELSE SelectItems(Tail(items), s)

\* stores of the items in first-seen order
RECURSIVE StoreOrder(_, _)
StoreOrder(items, seen) ==
    IF items = <<>> THEN <<>>
    ELSE IF Head(items).store \in seen
         THEN StoreOrder(Tail(items), seen)
         ELSE <<Head(items).store>> \o StoreOrder(Tail(items), seen \cup {Head(items).store})

(***************************************************************************)
(* Cart.findOne(...).populate('items.product', ...): every cart item with  *)
(* the product document as it is in the database at the time of the read.  *)
(***************************************************************************)
PopulateFrom(items, coll) ==
    [i \in DOMAIN items |->
        [product      |-> items[i].product,
         quantity     |-> items[i].quantity,
         price        |-> items[i].price,
         store        |-> ProductStore[items[i].product],
         sellingPrice |-> SellingPrice[items[i].product],
         status       |-> coll[items[i].product].status,
         trackStock   |-> coll[items[i].product].trackStock,
         stock        |-> coll[items[i].product].stock]]

Populate(items) == PopulateFrom(items, products)

(***************************************************************************)
(* storeGroups: the cart items grouped by item.product.store;              *)
(* Object.entries iterates string keys in insertion (first-seen) order.    *)
(***************************************************************************)
\* mutant: every item lands in the group of the first item's store
GroupByFirstStore(items) ==
    <<[store |-> items[1].store, items |-> items]>>

GroupByStore(items) ==
    LET ss == StoreOrder(items, {})
    IN  [g \in DOMAIN ss |-> [store |-> ss[g], items |-> SelectItems(items, ss[g])]]

(***************************************************************************)
(* The availability filter of one cart item (the two `continue`s).         *)
(***************************************************************************)
\* mutant: the stock is checked whether or not the product tracks it
ItemAvailableStockOnly(item) ==
    /\ item.status = "active"
    /\ item.stock >= item.quantity

ItemAvailable(item) ==
    /\ item.status = "active"
    /\ ~(item.trackStock /\ item.stock < item.quantity)

\* mutant: the order line is priced at the product's selling price of the moment
ItemPriceLive(item) == item.sellingPrice

\* the unit price of an order line: item.price, the price kept in the cart line
ItemPrice(item) == item.price

RECURSIVE ValidItems(_)
ValidItems(items) ==
    IF items = <<>> THEN <<>>
    ELSE IF ItemAvailable(Head(items))
         THEN <<[product  |-> Head(items).product,
                 quantity |-> Head(items).quantity,
                 price    |-> ItemPrice(Head(items)),
                 total    |-> ItemPrice(Head(items)) * Head(items).quantity]>>
              \o ValidItems(Tail(items))
         ELSE ValidItems(Tail(items))

DeliveryFee(deliveryType, s) ==
    IF deliveryType = "delivery" THEN stores[s].deliveryFee ELSE 0

(***************************************************************************)
(* orderSchema.methods.calculateTotal and the pre('save') hook.            *)
(***************************************************************************)
\* mutant: the delivery fee is left out of the total
calculateTotalNoFee(doc) ==
    LET sub == SumSeq([i \in DOMAIN doc.items |-> doc.items[i].total])
    IN  [doc EXCEPT !.pricing.subtotal = sub,
                    !.pricing.total = sub + doc.pricing.tax - doc.pricing.discount]

calculateTotal(doc) ==
    LET sub == SumSeq([i \in DOMAIN doc.items |-> doc.items[i].total])
    IN  [doc EXCEPT !.pricing.subtotal = sub,
                    !.pricing.total = sub + doc.pricing.deliveryFee
                                          + doc.pricing.tax - doc.pricing.discount]

\* mutant: the hook leaves the timeline of a new order as it is
PreSaveKeepTimeline(doc, isNew) == calculateTotal(doc)

PreSave(doc, isNew) ==
    calculateTotal(IF isNew
                   THEN [doc EXCEPT !.timeline =
                            <<[status |-> "pending", note |-> "Order placed"]>>]
                   ELSE doc)

\* new Order({...}) of the checkout handler, schema defaults filled in
NewOrder(c, s, validItems, deliveryType) ==
    LET subtotal == SumSeq([i \in DOMAIN validItems |-> validItems[i].total])
        fee == DeliveryFee(deliveryType, s)
    IN  [customer    |-> c,
         store       |-> s,
         items       |-> validItems,
         status      |-> "pending",
         pricing     |-> [subtotal |-> subtotal, deliveryFee |-> fee,
                          tax |-> 0, discount |-> 0, total |-> subtotal + fee],
         timeline    |-> <<>>,
         delivered   |-> FALSE,
         rating      |-> 0]

(***************************************************************************)
(* cart.save(): what Mongoose sends for the change made to the document in *)
(* memory.  A document made by new Cart(...) is inserted (the index on     *)
(* user is not unique).  items.push(...) is a $push: it increments the     *)
(* version and carries no condition on it.  A change of a field of an      *)
(* existing item is a $set on its position, conditional on the version the *)
(* document was loaded with.  An assignment to items (filter, []) is a     *)
(* $set of the array, conditional on the version, and increments it.  A    *)
(* save whose condition fails throws VersionError.                         *)
(***************************************************************************)
NoCart == [exists |-> FALSE, v |-> 0, others |-> <<>>]

OneCart(v) == [exists |-> TRUE, v |-> v, others |-> <<>>]

\* the deltas of a cart document
Insert(items) == [op |-> "insert", items |-> items]
Push(item) == [op |-> "push", item |-> item]
SetAt(i, quantity, price) == [op |-> "setAt", index |-> i, quantity |-> quantity, price |-> price]
SetAll(items) == [op |-> "setAll", items |-> items]

\* the save goes through: its condition on the version, if it has one, holds
SaveApplies(c, delta, v) ==
    delta.op \in {"setAt", "setAll"} => cartMeta[c].v = v

\* the items of the customer's first cart document after the save
ItemsAfterSave(c, delta) ==
    CASE delta.op = "insert" -> IF cartMeta[c].exists THEN carts[c] ELSE delta.items
      [] delta.op = "push"   -> Append(carts[c], delta.item)
      [] delta.op = "setAt"  -> [carts[c] EXCEPT ![delta.index].quantity = delta.quantity,
                                                 ![delta.index].price = delta.price]
      [] delta.op = "setAll" -> delta.items
      [] OTHER               -> carts[c]

MetaAfterSave(c, delta) ==
    CASE delta.op = "insert" -> IF cartMeta[c].exists
                                THEN [cartMeta[c] EXCEPT !.others = Append(@, delta.items)]
                                ELSE OneCart(0)
      [] delta.op \in {"push", "setAll"} -> [cartMeta[c] EXCEPT !.v = @ + 1]
      [] OTHER -> cartMeta[c]

(***************************************************************************)
(* Request slots                                                           *)
(***************************************************************************)
NoDoc == [customer |-> "none"]

\* no change of a loaded cart document is pending
NoDelta == [op |-> "none"]

\* no product document in hand
NoSnap == [trackStock |-> FALSE, stock |-> 0, sellingPrice |-> 0]

Idle ==
    [kind |-> "none", pc |-> "idle", user |-> "none",
     deliveryType |-> "none", cart |-> <<>>, groups |-> <<>>, gi |-> 0,
     doc |-> NoDoc, orderId |-> 0, ii |-> 0, created |-> <<>>,
     stockBefore |-> <<>>, loaded |-> NoDoc, newCount |-> 0, newAverage |-> 0,
     cartV |-> 0, delta |-> NoDelta, product |-> "none", quantity |-> 0,
     snap |-> NoSnap, ordersBefore |-> 0, statsBefore |-> <<>>,
     addedMeanwhile |-> {}]

Free(r) == req[r].pc = "idle"
InFlight(r) == ~Free(r)

\* a request that arrives is served in the first free slot; in a serial
\* behaviour it arrives when no other request is in flight
Arrive(r) ==
    /\ Free(r)
    /\ \A q \in Req : q < r => InFlight(q)
    /\ serial => \A q \in Req : Free(q)
    /\ ops < limit
    /\ ops' = ops + 1

\* res.status(...).json(...): the response of a request of the given kind
Response(kind, user, res) == [kind |-> kind, user |-> user, res |-> res]

(***************************************************************************)
(* POST /checkout                                                          *)
(***************************************************************************)
\* the for-loop header over storeGroups, entered with group index gi:
\* the next store is looked up, or the loop is over
LoopHead(slot, gi) ==
    IF gi <= Len(slot.groups)
    THEN [slot EXCEPT !.gi = gi, !.pc = "findStore"]
    ELSE IF slot.created = <<>>
         THEN Idle
         ELSE [slot EXCEPT !.gi = gi, !.pc = "saveCart"]

\* mutant: the loop's early return answers nothing
LoopRespSilent(slot, gi) == resp

\* the response that goes with LoopHead's early return
LoopResp(slot, gi) ==
    IF gi > Len(slot.groups) /\ slot.created = <<>>
    THEN Response("checkout", slot.user, "NoValidItems")
    ELSE resp

\* request arrives; Cart.findOne + populate
CheckoutFindCart(r, c, dt) ==
    /\ Arrive(r)
    /\ LET cart == Populate(carts[c])
           slot == [Idle EXCEPT !.kind = "checkout", !.user = c, !.deliveryType = dt,
                                !.cart = cart, !.groups = GroupByStore(cart),
                                !.cartV = cartMeta[c].v,
                                !.ordersBefore = Len(orders),
                                !.statsBefore = [s \in Stores |->
                                    <<stores[s].totalOrders, stores[s].totalRevenue>>],
                                !.stockBefore = [p \in Products |-> products[p].stock]]
       IN  IF cart = <<>>
           THEN /\ req' = req
                /\ resp' = Response("checkout", c, "CartEmpty")
           ELSE /\ req' = [req EXCEPT ![r] = LoopHead(slot, 1)]
                /\ resp' = LoopResp(slot, 1)
    /\ UNCHANGED <<products, stores, carts, cartMeta, orders, stock0, added, restored, fails, serial, limit>>

\* Store.findById, then the availability filter and new Order(...)
CheckoutFindStore(r) ==
    /\ req[r].pc = "findStore"
    /\ LET slot == req[r]
           g == slot.groups[slot.gi]
           valid == ValidItems(g.items)
       IN  IF ~stores[g.store].isActive \/ valid = <<>>
           THEN /\ req' = [req EXCEPT ![r] = LoopHead(slot, slot.gi + 1)]
                /\ resp' = LoopResp(slot, slot.gi + 1)
           ELSE /\ req' = [req EXCEPT ![r] =
                     [slot EXCEPT !.pc = "saveOrder",
                                  !.doc = NewOrder(slot.user, g.store, valid,
                                                   slot.deliveryType)]]
                /\ resp' = resp
    /\ UNCHANGED <<products, stores, carts, cartMeta, orders, stock0, added, restored, ops, fails, serial, limit>>

\* await order.save()
CheckoutSaveOrder(r) ==
    /\ req[r].pc = "saveOrder"
    /\ orders' = Append(orders, PreSave(req[r].doc, TRUE))
    /\ restored' = Append(restored, [p \in Products |-> 0])
    /\ req' = [req EXCEPT ![r].pc = "decStock", ![r].orderId = Len(orders) + 1,
                          ![r].doc = PreSave(req[r].doc, TRUE), ![r].ii = 1]
    /\ UNCHANGED <<products, stores, carts, cartMeta, resp, stock0, added, ops, fails, serial, limit>>

\* mutant: one unit per item, whatever its quantity
StockDeltaOne(item) == -1

\* the amount Product.findByIdAndUpdate adds to inventory.stock for an order item
StockDelta(item) == -item.quantity

\* await Product.findByIdAndUpdate(item.product, {$inc: {'inventory.stock': -item.quantity}})
CheckoutDecStock(r) ==
    /\ req[r].pc = "decStock"
    /\ LET slot == req[r]
           item == slot.doc.items[slot.ii]
       IN  /\ products' = [products EXCEPT ![item.product].stock = @ + StockDelta(item)]
           /\ req' = [req EXCEPT ![r].ii = slot.ii + 1,
                                 ![r].pc = IF slot.ii < Len(slot.doc.items)
                                           THEN "decStock" ELSE "incStats"]
    /\ UNCHANGED <<stores, carts, cartMeta, orders, resp, stock0, added, restored, ops, fails, serial, limit>>

\* await Store.findByIdAndUpdate(storeId, {$inc: stats}); orders.push(order)
CheckoutIncStats(r) ==
    /\ req[r].pc = "incStats"
    /\ LET slot == req[r]
           s == slot.doc.store
       IN  /\ stores' = [stores EXCEPT ![s].totalOrders = @ + 1,
                                       ![s].totalRevenue = @ + slot.doc.pricing.total]
           /\ req' = [req EXCEPT ![r] =
                        LoopHead([slot EXCEPT !.created = Append(@, slot.orderId)],
                                 slot.gi + 1)]
    /\ UNCHANGED <<products, carts, cartMeta, orders, resp, stock0, added, restored, ops, fails, serial, limit>>

\* cart.clearCart(); await cart.save(); 201 (500 when the save throws VersionError)
CheckoutSaveCart(r) ==
    /\ req[r].pc = "saveCart"
    /\ LET c == req[r].user
           delta == SetAll(<<>>)   \* cart.clearCart() of a cart that has items
       IN  IF SaveApplies(c, delta, req[r].cartV)
           THEN /\ carts' = [carts EXCEPT ![c] = ItemsAfterSave(c, delta)]
                /\ cartMeta' = [cartMeta EXCEPT ![c] = MetaAfterSave(c, delta)]
                /\ resp' = Response("checkout", c, "OrdersCreated")
           ELSE /\ UNCHANGED <<carts, cartMeta>>
                /\ resp' = Response("checkout", c, "ServerError")
    /\ req' = [req EXCEPT ![r] = Idle]
    /\ UNCHANGED <<products, stores, orders, stock0, added, restored, ops, fails, serial, limit>>

(***************************************************************************)
(* Order documents loaded by findById, changed in memory and saved.        *)
(***************************************************************************)
\* mutant: the status is set and nothing is appended to the timeline
updateStatusNoTimeline(doc, newStatus, note) ==
    [doc EXCEPT !.status = newStatus,
                !.delivered = IF newStatus = "delivered" THEN TRUE ELSE @]

\* orderSchema.methods.updateStatus
updateStatus(doc, newStatus, note) ==
    [doc EXCEPT !.status = newStatus,
                !.timeline = Append(@, [status |-> newStatus, note |-> note]),
                !.delivered = IF newStatus = "delivered" THEN TRUE ELSE @]

\* orderSchema.methods.addRating
addRating(doc, rating) == [doc EXCEPT !.rating = rating]

\* await order.save() of a loaded document: the pre('save') hook runs, then the
\* paths changed in memory are written ($set on status, deliveredAt, rating and
\* pricing; $push of the new timeline entries onto the stored array)
SaveLoaded(stored, loaded, doc) ==
    LET d == PreSave(doc, FALSE)
    IN  [stored EXCEPT
            !.status = IF d.status # loaded.status THEN d.status ELSE @,
            !.delivered = IF d.delivered # loaded.delivered THEN d.delivered ELSE @,
            !.rating = IF d.rating # loaded.rating THEN d.rating ELSE @,
            !.pricing = IF d.pricing # loaded.pricing THEN d.pricing ELSE @,
            !.timeline = @ \o SubSeq(d.timeline, Len(loaded.timeline) + 1, Len(d.timeline))]

(***************************************************************************)
(* PATCH /:id/cancel                                                       *)
(***************************************************************************)
\* mutant: an order already cancelled passes the check
NotCancellableButCancelled == {"delivered", "refunded"}

\* the statuses in which an order cannot be cancelled
NotCancellable == {"delivered", "cancelled", "refunded"}

\* request arrives; Order.findById, the checks, order.updateStatus in memory
CancelFindOrder(r, c, o) ==
    /\ Arrive(r)
    /\ o \in DOMAIN orders
    /\ IF orders[o].customer # c
       THEN /\ resp' = Response("cancel", c, "AccessDenied")
            /\ req' = req
       ELSE IF orders[o].status \in NotCancellable
       THEN /\ resp' = Response("cancel", c, "NotCancellable")
            /\ req' = req
       ELSE /\ resp' = resp
            /\ req' = [req EXCEPT ![r] =
                 [Idle EXCEPT !.kind = "cancel", !.pc = "cancelSave", !.user = c,
                              !.orderId = o, !.loaded = orders[o],
                              !.doc = updateStatus(orders[o], "cancelled",
                                                   "Cancelled by customer")]]
    /\ UNCHANGED <<products, stores, carts, cartMeta, orders, stock0, added, restored, fails, serial, limit>>

\* await order.save()
CancelSave(r) ==
    /\ req[r].pc = "cancelSave"
    /\ orders' = [orders EXCEPT ![req[r].orderId] = SaveLoaded(@, req[r].loaded, req[r].doc)]
    /\ req' = [req EXCEPT ![r].pc = "restore", ![r].ii = 1]
    /\ UNCHANGED <<products, stores, carts, cartMeta, resp, stock0, added, restored, ops, fails, serial, limit>>

\* the amount the cancel handler adds back to inventory.stock for an order item
RestoreDelta(item) == item.quantity

\* await Product.findByIdAndUpdate(item.product, {$inc: {'inventory.stock': item.quantity}})
CancelRestore(r) ==
    /\ req[r].pc = "restore"
    /\ LET slot == req[r]
           item == slot.doc.items[slot.ii]
       IN  /\ products' = [products EXCEPT ![item.product].stock = @ + RestoreDelta(item)]
           /\ restored' = [restored EXCEPT ![slot.orderId][item.product] =
                                                @ + RestoreDelta(item)]
           /\ IF slot.ii < Len(slot.doc.items)
              THEN /\ req' = [req EXCEPT ![r].ii = slot.ii + 1]
                   /\ resp' = resp
              ELSE /\ req' = [req EXCEPT ![r] = Idle]
                   /\ resp' = Response("cancel", slot.user, "Cancelled")
    /\ UNCHANGED <<stores, carts, cartMeta, orders, stock0, added, ops, fails, serial, limit>>

(***************************************************************************)
(* PATCH /:id/status                                                       *)
(***************************************************************************)
\* the statuses a store owner sets in this model (the validator accepts
\* pending, confirmed, preparing, ready, out_for_delivery, delivered, cancelled)
StatusInputs == {"confirmed", "delivered", "cancelled"}

\* Store.findOne({owner: req.user._id})
StoreOf(u) == CHOOSE s \in Stores : StoreOwner[s] = u

\* request arrives; Order.findById, the store ownership check,
\* order.updateStatus in memory
StatusFindOrder(r, u, o, st) ==
    /\ Arrive(r)
    /\ o \in DOMAIN orders
    /\ IF orders[o].store # StoreOf(u)
       THEN /\ resp' = Response("status", u, "AccessDenied")
            /\ req' = req
       ELSE /\ resp' = resp
            /\ req' = [req EXCEPT ![r] =
                 [Idle EXCEPT !.kind = "status", !.pc = "statusSave", !.user = u,
                              !.orderId = o, !.loaded = orders[o],
                              !.doc = updateStatus(orders[o], st, "")]]
    /\ UNCHANGED <<products, stores, carts, cartMeta, orders, stock0, added, restored, fails, serial, limit>>

\* await order.save()
StatusSave(r) ==
    /\ req[r].pc = "statusSave"
    /\ orders' = [orders EXCEPT ![req[r].orderId] = SaveLoaded(@, req[r].loaded, req[r].doc)]
    /\ req' = [req EXCEPT ![r] = Idle]
    /\ resp' = Response("status", req[r].user, "StatusUpdated")
    /\ UNCHANGED <<products, stores, carts, cartMeta, stock0, added, restored, ops, fails, serial, limit>>

(***************************************************************************)
(* GET /:id                                                                *)
(***************************************************************************)
\* req.user.userType of the authenticated user
UserType(u) == IF u \in Owners THEN "store_owner" ELSE "customer"

\* request arrives; Order.findById(...).populate(...); the access check; response
GetOrder(r, u, o) ==
    /\ Arrive(r)
    /\ o \in DOMAIN orders
    /\ resp' = IF orders[o].customer # u /\ UserType(u) # "store_owner"
               THEN Response("getOrder", u, "AccessDenied")
               ELSE Response("getOrder", u, "Order")
    /\ UNCHANGED <<products, stores, carts, cartMeta, orders, req, stock0, added, restored, fails, serial, limit>>

(***************************************************************************)
(* POST /:id/rating                                                        *)
(***************************************************************************)
\* the rating values a customer sends in this model (the validator accepts 1..5)
RatingInputs == {1, 5}

\* Math.round(x * 100) / 100 of x = num / den, in hundredths
RoundHundredths(num, den) == (2 * 100 * num + den) \div (2 * den)

\* request arrives; Order.findById, the checks, order.addRating in memory
RateFindOrder(r, c, o, v) ==
    /\ Arrive(r)
    /\ o \in DOMAIN orders
    /\ IF orders[o].customer # c
       THEN /\ resp' = Response("rate", c, "AccessDenied")
            /\ req' = req
       ELSE IF orders[o].status # "delivered"
       THEN /\ resp' = Response("rate", c, "NotDeliveredYet")
            /\ req' = req
       ELSE IF orders[o].rating # 0
       THEN /\ resp' = Response("rate", c, "AlreadyRated")
            /\ req' = req
       ELSE /\ resp' = resp
            /\ req' = [req EXCEPT ![r] =
                 [Idle EXCEPT !.kind = "rate", !.pc = "rateSave", !.user = c,
                              !.orderId = o, !.loaded = orders[o],
                              !.doc = addRating(orders[o], v)]]
    /\ UNCHANGED <<products, stores, carts, cartMeta, orders, stock0, added, restored, fails, serial, limit>>

\* await order.save()
RateSave(r) ==
    /\ req[r].pc = "rateSave"
    /\ orders' = [orders EXCEPT ![req[r].orderId] = SaveLoaded(@, req[r].loaded, req[r].doc)]
    /\ req' = [req EXCEPT ![r].pc = "rateFindStore"]
    /\ UNCHANGED <<products, stores, carts, cartMeta, resp, stock0, added, restored, ops, fails, serial, limit>>

\* await Store.findById(order.store); the new count and average are computed
RateFindStore(r) ==
    /\ req[r].pc = "rateFindStore"
    /\ LET st == stores[req[r].doc.store]
           n == st.ratingCount + 1
       IN  req' = [req EXCEPT ![r].pc = "rateUpdateStore",
                              ![r].newCount = n,
                              ![r].newAverage =
                                  RoundHundredths(st.ratingAverage * st.ratingCount
                                                  + 100 * req[r].doc.rating, 100 * n)]
    /\ UNCHANGED <<products, stores, carts, cartMeta, orders, resp, stock0, added, restored, ops, fails, serial, limit>>

\* await Store.findByIdAndUpdate(order.store, {'rating.average', 'rating.count'})
RateUpdateStore(r) ==
    /\ req[r].pc = "rateUpdateStore"
    /\ stores' = [stores EXCEPT ![req[r].doc.store].ratingAverage = req[r].newAverage,
                                ![req[r].doc.store].ratingCount = req[r].newCount]
    /\ req' = [req EXCEPT ![r] = Idle]
    /\ resp' = Response("rate", req[r].user, "Rated")
    /\ UNCHANGED <<products, carts, cartMeta, orders, stock0, added, restored, ops, fails, serial, limit>>

(***************************************************************************)
(* Cart routes.  The handler holds the cart document it loaded (its items  *)
(* and version) and the change it has made to it in memory; the change is  *)
(* written by cart.save().  The read that builds the response after the    *)
(* save changes nothing and is part of the save step.                      *)
(***************************************************************************)
\* position of product p's item in the items, 0 if there is none (items.find)
RECURSIVE IndexOf(_, _, _)
IndexOf(items, p, i) ==
    IF i > Len(items) THEN 0
    ELSE IF items[i].product = p THEN i ELSE IndexOf(items, p, i + 1)

\* cartSchema.methods.removeItem: the items without product p's
removeItem(items, p) == SelectSeq(items, LAMBDA it : it.product # p)

\* cartSchema.methods.clearCart
clearCart(items) == <<>>

\* this.items = ...: the array is written when the assignment changes it
AssignItems(loadedItems, newItems) ==
    IF newItems = loadedItems THEN NoDelta ELSE SetAll(newItems)

\* mutant: the quantity sent is added to the item's quantity
updateItemQuantityAdds(items, p, quantity) ==
    LET i == IndexOf(items, p, 1)
    IN  IF i = 0 THEN NoDelta
        ELSE IF quantity <= 0 THEN AssignItems(items, removeItem(items, p))
        ELSE SetAt(i, items[i].quantity + quantity, items[i].price)

\* cartSchema.methods.updateItemQuantity on loaded items, as the change it makes
updateItemQuantity(items, p, quantity) ==
    LET i == IndexOf(items, p, 1)
    IN  IF i = 0 THEN NoDelta
        ELSE IF quantity <= 0 THEN AssignItems(items, removeItem(items, p))
        ELSE IF items[i].quantity = quantity THEN NoDelta
        ELSE SetAt(i, quantity, items[i].price)

\* the quantities a customer sends in this model
Quantities == {1, 2}

\* await cart.save() of the handler in slot r, then its response
CartSave(r, pc, res) ==
    /\ req[r].pc = pc
    /\ LET c == req[r].user
           delta == req[r].delta
       IN  IF SaveApplies(c, delta, req[r].cartV)
           THEN /\ carts' = [carts EXCEPT ![c] = ItemsAfterSave(c, delta)]
                /\ cartMeta' = [cartMeta EXCEPT ![c] = MetaAfterSave(c, delta)]
                /\ resp' = Response(req[r].kind, c, res)
           ELSE /\ UNCHANGED <<carts, cartMeta>>
                /\ resp' = Response(req[r].kind, c, "ServerError")
    /\ added' = IF req[r].kind = "add" /\ SaveApplies(req[r].user, req[r].delta, req[r].cartV)
                 THEN added \cup {<<req[r].user, req[r].product>>}
                 ELSE added
    \* history: a checkout of the same customer that is in progress notes the
    \* product of a POST /add answered 200
    /\ req' = [q \in Req |->
                 IF q = r THEN Idle
                 ELSE IF /\ req[r].kind = "add"
                         /\ SaveApplies(req[r].user, req[r].delta, req[r].cartV)
                         /\ req[q].kind = "checkout"
                         /\ req[q].user = req[r].user
                      THEN [req[q] EXCEPT !.addedMeanwhile = @ \cup {req[r].product}]
                      ELSE req[q]]
    /\ UNCHANGED <<products, stores, orders, stock0, restored, ops, fails, serial, limit>>

\* a cart handler returns early with res
CartReturn(r, kind, c, res) ==
    /\ req' = [req EXCEPT ![r] = Idle]
    /\ resp' = Response(kind, c, res)

\* POST /add: request arrives; Product.findById(...).populate('store') and the
\* availability checks
AddFindProduct(r, c, p, q) ==
    /\ Arrive(r)
    /\ IF products[p].status # "active"
       THEN CartReturn(r, "add", c, "ProductNotAvailable")
       ELSE IF ~stores[ProductStore[p]].isActive
       THEN CartReturn(r, "add", c, "StoreNotActive")
       ELSE IF products[p].trackStock /\ products[p].stock < q
       THEN CartReturn(r, "add", c, "InsufficientStock")
       ELSE /\ req' = [req EXCEPT ![r] =
                 [Idle EXCEPT !.kind = "add", !.pc = "addFindCart", !.user = c,
                              !.product = p, !.quantity = q,
                              !.snap = [trackStock   |-> products[p].trackStock,
                                        stock        |-> products[p].stock,
                                        sellingPrice |-> SellingPrice[p]]]]
            /\ resp' = resp
    /\ UNCHANGED <<products, stores, carts, cartMeta, orders, stock0, added, restored, fails, serial, limit>>

\* POST /add: Cart.findOne or new Cart; the existing item is updated or a new
\* item is pushed, in memory
AddFindCart(r) ==
    /\ req[r].pc = "addFindCart"
    /\ LET slot == req[r]
           c == slot.user
           items == carts[c]
           i == IndexOf(items, slot.product, 1)
           line == [product |-> slot.product, quantity |-> slot.quantity,
                    price |-> slot.snap.sellingPrice]
       IN  IF ~cartMeta[c].exists
           THEN /\ req' = [req EXCEPT ![r].pc = "addSave", ![r].delta = Insert(<<line>>)]
                /\ resp' = resp
           ELSE IF i = 0
           THEN /\ req' = [req EXCEPT ![r].pc = "addSave", ![r].cart = items,
                                      ![r].cartV = cartMeta[c].v, ![r].delta = Push(line)]
                /\ resp' = resp
           ELSE IF slot.snap.trackStock /\ slot.snap.stock < items[i].quantity + slot.quantity
           THEN CartReturn(r, "add", c, "InsufficientStock")
           ELSE /\ req' = [req EXCEPT ![r].pc = "addSave", ![r].cart = items,
                                      ![r].cartV = cartMeta[c].v,
                                      ![r].delta = SetAt(i, items[i].quantity + slot.quantity,
                                                         slot.snap.sellingPrice)]
                /\ resp' = resp
    /\ UNCHANGED <<products, stores, carts, cartMeta, orders, stock0, added, restored, ops, fails, serial, limit>>

\* POST /add: await cart.save(); response
AddSave(r) ==
    /\ req[r].kind = "add"
    /\ CartSave(r, "addSave", "ItemAdded")

\* PUT /update: request arrives; Cart.findOne; quantity 0 removes the item
UpdateFindCart(r, c, p, q) ==
    /\ Arrive(r)
    /\ IF ~cartMeta[c].exists
       THEN CartReturn(r, "update", c, "CartNotFound")
       ELSE /\ req' = [req EXCEPT ![r] =
                 [Idle EXCEPT !.kind = "update", !.user = c, !.product = p, !.quantity = q,
                              !.cart = carts[c], !.cartV = cartMeta[c].v,
                              !.pc = IF q = 0 THEN "updateSave" ELSE "updateFindProduct",
                              !.delta = IF q = 0
                                        THEN AssignItems(carts[c], removeItem(carts[c], p))
                                        ELSE NoDelta]]
            /\ resp' = resp
    /\ UNCHANGED <<products, stores, carts, cartMeta, orders, stock0, added, restored, fails, serial, limit>>

\* PUT /update: Product.findById, the checks, cart.updateItemQuantity in memory
UpdateFindProduct(r) ==
    /\ req[r].pc = "updateFindProduct"
    /\ LET slot == req[r]
           p == slot.product
       IN  IF products[p].status # "active"
           THEN CartReturn(r, "update", slot.user, "ProductNotAvailable")
           ELSE IF products[p].trackStock /\ products[p].stock < slot.quantity
           THEN CartReturn(r, "update", slot.user, "InsufficientStock")
           ELSE /\ req' = [req EXCEPT ![r].pc = "updateSave",
                                      ![r].delta = updateItemQuantity(slot.cart, p,
                                                                      slot.quantity)]
                /\ resp' = resp
    /\ UNCHANGED <<products, stores, carts, cartMeta, orders, stock0, added, restored, ops, fails, serial, limit>>

\* PUT /update: await cart.save(); response
UpdateSave(r) ==
    /\ req[r].kind = "update"
    /\ CartSave(r, "updateSave", "CartUpdated")

\* DELETE /remove/:productId: request arrives; Cart.findOne; cart.removeItem
RemoveFindCart(r, c, p) ==
    /\ Arrive(r)
    /\ IF ~cartMeta[c].exists
       THEN CartReturn(r, "remove", c, "CartNotFound")
       ELSE /\ req' = [req EXCEPT ![r] =
                 [Idle EXCEPT !.kind = "remove", !.pc = "removeSave", !.user = c,
                              !.product = p, !.cart = carts[c], !.cartV = cartMeta[c].v,
                              !.delta = AssignItems(carts[c], removeItem(carts[c], p))]]
            /\ resp' = resp
    /\ UNCHANGED <<products, stores, carts, cartMeta, orders, stock0, added, restored, fails, serial, limit>>

\* DELETE /remove/:productId: await cart.save(); response
RemoveSave(r) ==
    /\ req[r].kind = "remove"
    /\ CartSave(r, "removeSave", "ItemRemoved")

\* DELETE /clear: request arrives; Cart.findOne; cart.clearCart
ClearFindCart(r, c) ==
    /\ Arrive(r)
    /\ IF ~cartMeta[c].exists
       THEN CartReturn(r, "clear", c, "CartNotFound")
       ELSE /\ req' = [req EXCEPT ![r] =
                 [Idle EXCEPT !.kind = "clear", !.pc = "clearSave", !.user = c,
                              !.cart = carts[c], !.cartV = cartMeta[c].v,
                              !.delta = AssignItems(carts[c], clearCart(carts[c]))]]
            /\ resp' = resp
    /\ UNCHANGED <<products, stores, carts, cartMeta, orders, stock0, added, restored, fails, serial, limit>>

\* DELETE /clear: await cart.save(); response
ClearSave(r) ==
    /\ req[r].kind = "clear"
    /\ CartSave(r, "clearSave", "CartCleared")

\* GET /: the items whose product is active and in stock
availableItems(items) ==
    SelectSeq(items, LAMBDA it :
        /\ products[it.product].status = "active"
        /\ (products[it.product].stock >= it.quantity \/ ~products[it.product].trackStock))

\* GET /: request arrives; Cart.findOne(...).populate; a missing cart is
\* created, an existing one is filtered
GetFindCart(r, c) ==
    /\ Arrive(r)
    /\ IF ~cartMeta[c].exists
       THEN /\ req' = [req EXCEPT ![r] =
                 [Idle EXCEPT !.kind = "get", !.pc = "getSaveNew", !.user = c,
                              !.delta = Insert(<<>>)]]
            /\ resp' = resp
       ELSE IF Len(availableItems(carts[c])) = Len(carts[c])
       THEN CartReturn(r, "get", c, "Cart")
       ELSE /\ req' = [req EXCEPT ![r] =
                 [Idle EXCEPT !.kind = "get", !.pc = "getSave", !.user = c,
                              !.cart = carts[c], !.cartV = cartMeta[c].v,
                              !.delta = SetAll(availableItems(carts[c]))]]
            /\ resp' = resp
    /\ UNCHANGED <<products, stores, carts, cartMeta, orders, stock0, added, restored, fails, serial, limit>>

\* GET /: await cart.save() of the new, empty cart; nothing to filter; response
GetSaveNew(r) ==
    /\ req[r].kind = "get"
    /\ CartSave(r, "getSaveNew", "Cart")

\* GET /: await cart.save() of the filtered cart; response
GetSaveFiltered(r) ==
    /\ req[r].kind = "get"
    /\ CartSave(r, "getSave", "Cart")

(***************************************************************************)
(* An awaited database operation throws: every handler is one try block    *)
(* whose catch answers 500.                                                *)
(***************************************************************************)
AwaitPcs == {"findStore", "saveOrder", "decStock", "incStats", "saveCart",
             "cancelSave", "restore", "statusSave",
             "rateSave", "rateFindStore", "rateUpdateStore",
             "addFindCart", "addSave", "updateFindProduct", "updateSave",
             "removeSave", "clearSave", "getSaveNew", "getSave"}

\* mutant: a failed order.save() is swallowed and the loop body goes on
OnErrorSwallowSave(pc) == IF pc = "saveOrder" THEN "decStock" ELSE "catch"

\* where the handler is after the operation at pc has thrown
OnError(pc) == "catch"

StorageError(r) ==
    /\ req[r].pc \in AwaitPcs
    /\ fails < MaxFail
    /\ fails' = fails + 1
    /\ IF OnError(req[r].pc) = "catch"
       THEN /\ req' = [req EXCEPT ![r] = Idle]
            /\ resp' = Response(req[r].kind, req[r].user, "ServerError")
       ELSE /\ req' = [req EXCEPT ![r].pc = OnError(req[r].pc), ![r].ii = 1]
            /\ resp' = resp
    /\ UNCHANGED <<products, stores, carts, cartMeta, orders, stock0, added, restored, ops, serial, limit>>

(***************************************************************************)
(* Initial states: a catalog of three products of two stores, and the      *)
(* carts of two customers.  c1's cart spans both stores; c2 wants p1 too.  *)
(* In a seeded initial state earlier requests have been served: the        *)
(* orders, the stock, the store statistics and ratings and the carts are   *)
(* what the handlers leave behind (only where the stock covered the        *)
(* orders: no initial stock is negative).  Either nothing makes a checkout *)
(* skip, or p2 is inactive, or store s2 is inactive, or both stores are.   *)
(***************************************************************************)
Line(p, q) == [product |-> p, quantity |-> q, price |-> CartPrice[p]]

Cart1 == <<Line("p1", 1), Line("p3", 2), Line("p2", 1)>>
Cart2 == <<Line("p1", 1)>>

\* p1 is the scarce product: tracked with stock st1, or (st1 = -1) not tracked
\* and with no stock; p2 is inactive when skip = "product"
Catalog(st1, skip) ==
    [p \in Products |->
        [status     |-> IF p = "p2" /\ skip = "product" THEN "inactive" ELSE "active",
         trackStock |-> IF p = "p1" THEN st1 >= 0 ELSE TRUE,
         stock      |-> IF p = "p1" THEN (IF st1 >= 0 THEN st1 ELSE 0) ELSE MaxStock]]

SeedItems(cat) == ValidItems(PopulateFrom(Cart2, cat))

\* the orders an earlier pickup checkout of the cart has created, one per
\* store of the cart (every store active, every line available)
SeedOrders(cat, c, cart) ==
    LET groups == GroupByStore(PopulateFrom(cart, cat))
    IN  [g \in DOMAIN groups |->
            PreSave(NewOrder(c, groups[g].store, ValidItems(groups[g].items), "pickup"),
                    TRUE)]

\* the order after the store owner has set it to delivered
SeedDelivered(order) == SaveLoaded(order, order, updateStatus(order, "delivered", ""))

\* the order after its customer has rated it
SeedRated(order, v) == SaveLoaded(order, order, addRating(order, v))

\* seed "pending": c2 has checked out.  seed "delivered": c2 and then c1
\* have checked out and the owner of s1 has set both orders of s1 to delivered.
\* seed "rated": as "delivered", and c2 has rated its order 5.
SeededOrders(cat, seed) ==
    CASE seed = "pending" ->
            <<PreSave(NewOrder("c2", "s1", SeedItems(cat), "pickup"), TRUE)>>
      [] seed \in {"delivered", "rated"} ->
            LET o2 == SeedOrders(cat, "c2", Cart2)
                o1 == SeedOrders(cat, "c1", Cart1)
                del == [i \in DOMAIN (o2 \o o1) |->
                          IF (o2 \o o1)[i].store = "s1"
                          THEN SeedDelivered((o2 \o o1)[i]) ELSE (o2 \o o1)[i]]
            IN  IF seed = "rated" THEN [del EXCEPT ![1] = SeedRated(@, 5)] ELSE del
      [] OTHER -> <<>>

\* the seed is a state the handlers reach from the catalog: the stock covered
\* the orders, the stores were active, and for "delivered" nothing was skipped
SeedReachable(cat, skip, seed) ==
    CASE seed = "pending" ->
            /\ skip # "stores"
            /\ SeedItems(cat) # <<>>
            /\ cat["p1"].stock >= QtyOf(Cart2, "p1")
      [] seed \in {"delivered", "rated"} ->
            /\ skip = "none"
            /\ cat["p1"].trackStock
            /\ \A p \in Products : cat[p].stock >= QtyOf(Cart1, p) + QtyOf(Cart2, p)
      [] OTHER -> TRUE

\* the ways a checkout skips: p2 is inactive, store s2 is inactive, or both
\* stores are
Skips == {"none", "product", "store", "stores"}

StoreActive(s, skip) == ~(skip = "stores" \/ (s = "s2" /\ skip = "store"))

Init ==
    \E st1 \in -1..MaxStock, skip \in Skips,
       seed \in {"none", "pending", "delivered", "rated"} :
        LET cat == Catalog(st1, skip)
            so == IF SeedReachable(cat, skip, seed) THEN SeededOrders(cat, seed) ELSE <<>>
            buyers == {so[i].customer : i \in DOMAIN so}
        IN  /\ stock0 = [p \in Products |-> cat[p].stock]
            /\ products =
                 [p \in Products |->
                    [cat[p] EXCEPT !.stock =
                        @ - SumSeq([i \in DOMAIN so |-> QtyOf(so[i].items, p)])]]
            /\ stores =
                 [s \in Stores |->
                    [isActive      |-> StoreActive(s, skip),
                     deliveryFee   |-> StoreFee[s],
                     totalOrders   |-> SumSeq([i \in DOMAIN so |->
                                          IF so[i].store = s THEN 1 ELSE 0]),
                     totalRevenue  |-> SumSeq([i \in DOMAIN so |->
                                          IF so[i].store = s THEN so[i].pricing.total ELSE 0]),
                     ratingAverage |-> IF s = "s1" /\ so # <<>> /\ so[1].rating # 0
                                       THEN 100 * so[1].rating ELSE 0,
                     ratingCount   |-> IF s = "s1" /\ so # <<>> /\ so[1].rating # 0
                                       THEN 1 ELSE 0]]
            /\ carts = [c \in Customers |->
                          IF c \in buyers THEN <<>> ELSE IF c = "c1" THEN Cart1 ELSE Cart2]
            /\ cartMeta = [c \in Customers |-> OneCart(IF c \in buyers THEN 1 ELSE 0)]
            /\ orders = so
            /\ added = {}
            /\ restored = [i \in DOMAIN so |-> [p \in Products |-> 0]]
            /\ req = [r \in Req |-> Idle]
            /\ resp = Response("none", "none", "none")
            /\ ops = 0
            /\ fails = 0
            /\ serial \in BOOLEAN
            /\ limit = MaxOps

Step(r) ==
    \/ \E c \in Customers, dt \in {"pickup", "delivery"} : CheckoutFindCart(r, c, dt)
    \/ CheckoutFindStore(r)
    \/ CheckoutSaveOrder(r)
    \/ CheckoutDecStock(r)
    \/ CheckoutIncStats(r)
    \/ CheckoutSaveCart(r)
    \/ \E c \in Customers, o \in DOMAIN orders : CancelFindOrder(r, c, o)
    \/ CancelSave(r)
    \/ CancelRestore(r)
    \/ \E u \in Owners, o \in DOMAIN orders, st \in StatusInputs : StatusFindOrder(r, u, o, st)
    \/ StatusSave(r)
    \/ \E c \in Customers, o \in DOMAIN orders, v \in RatingInputs : RateFindOrder(r, c, o, v)
    \/ RateSave(r)
    \/ RateFindStore(r)
    \/ RateUpdateStore(r)
    \/ \E u \in Customers \cup Owners, o \in DOMAIN orders : GetOrder(r, u, o)
    \/ StorageError(r)

Next == \E r \in Req : Step(r)

\* the cart routes, interleaving at their awaits
CartStep(r) ==
    \/ \E c \in Customers, p \in Products, q \in Quantities : AddFindProduct(r, c, p, q)
    \/ AddFindCart(r)
    \/ AddSave(r)
    \/ \E c \in Customers, p \in Products, q \in {0} \cup Quantities :
          UpdateFindCart(r, c, p, q)
    \/ UpdateFindProduct(r)
    \/ UpdateSave(r)
    \/ \E c \in Customers, p \in Products : RemoveFindCart(r, c, p)
    \/ RemoveSave(r)
    \/ \E c \in Customers : ClearFindCart(r, c)
    \/ ClearSave(r)
    \/ \E c \in Customers : GetFindCart(r, c)
    \/ GetSaveNew(r)
    \/ GetSaveFiltered(r)
    \/ StorageError(r)

CartNext == \E r \in Req : CartStep(r)

\* the carts the cart routes start from: c1 has no cart document yet, or an
\* empty cart, or a cart with items; c2 has a cart with one item
CartStarts == {<<>>, <<Line("p1", 1)>>, <<Line("p3", 2), Line("p2", 1)>>}

CartInit ==
    \E st1 \in -1..MaxStock, skip \in Skips,
       exists \in BOOLEAN, start \in CartStarts :
        /\ (~exists => start = <<>>)
        /\ products = Catalog(st1, skip)
        /\ stock0 = [p \in Products |-> products[p].stock]
        /\ stores =
             [s \in Stores |->
                [isActive      |-> StoreActive(s, skip),
                 deliveryFee   |-> StoreFee[s],
                 totalOrders   |-> 0,
                 totalRevenue  |-> 0,
                 ratingAverage |-> 0,
                 ratingCount   |-> 0]]
        /\ carts = [c \in Customers |-> IF c = "c1" THEN start ELSE Cart2]
        /\ cartMeta = [c \in Customers |->
                         IF c = "c1" /\ ~exists THEN NoCart ELSE OneCart(0)]
        /\ orders = <<>>
        /\ restored = <<>>
        /\ added = {}
        /\ req = [r \in Req |-> Idle]
        /\ resp = Response("none", "none", "none")
        /\ ops = 0
        /\ fails = 0
        /\ serial \in BOOLEAN
        /\ limit = MaxOps

\* the cart requests interleave at their awaits
CartConcInit == CartInit /\ serial = FALSE

CartSpec == CartConcInit /\ [][CartNext]_vars

\* the same cart requests, served one at a time
CartSeqInit == CartInit /\ serial = TRUE

CartSeqSpec == CartSeqInit /\ [][CartNext]_vars

\* checkouts and POST /add requests, interleaving at their awaits
MixStep(r) ==
    \/ \E c \in Customers, dt \in {"pickup", "delivery"} : CheckoutFindCart(r, c, dt)
    \/ CheckoutFindStore(r)
    \/ CheckoutSaveOrder(r)
    \/ CheckoutDecStock(r)
    \/ CheckoutIncStats(r)
    \/ CheckoutSaveCart(r)
    \/ \E c \in Customers, p \in Products, q \in Quantities : AddFindProduct(r, c, p, q)
    \/ AddFindCart(r)
    \/ AddSave(r)

MixNext == \E r \in Req : MixStep(r)

\* every product and store is available and p1 is tracked; c1's cart spans
\* both stores and c2's cart asks for the whole stock of p1
MixInit ==
    /\ products = Catalog(MaxStock, "none")
    /\ stock0 = [p \in Products |-> products[p].stock]
    /\ stores =
         [s \in Stores |->
            [isActive      |-> TRUE,
             deliveryFee   |-> StoreFee[s],
             totalOrders   |-> 0,
             totalRevenue  |-> 0,
             ratingAverage |-> 0,
             ratingCount   |-> 0]]
    /\ carts = [c \in Customers |-> IF c = "c1" THEN Cart1 ELSE <<Line("p1", MaxStock)>>]
    /\ cartMeta = [c \in Customers |-> OneCart(0)]
    /\ orders = <<>>
    /\ restored = <<>>
    /\ added = {}
    /\ req = [r \in Req |-> Idle]
    /\ resp = Response("none", "none", "none")
    /\ ops = 0
    /\ fails = 0
    /\ serial = FALSE
    /\ limit = MaxMixOps

MixSpec == MixInit /\ [][MixNext]_vars

\* requests interleave at their awaits
ConcInit == Init /\ serial = FALSE

Spec == ConcInit /\ [][Next]_vars

\* the same requests, served one at a time
SeqInit == Init /\ serial = TRUE

SeqSpec == SeqInit /\ [][Next]_vars

(***************************************************************************)
(* Quantities the properties are stated with                               *)
(***************************************************************************)
OrderIds == DOMAIN orders

\* total quantity of product p on the items of all persisted orders
OrderedQty(p) == SumSeq([o \in OrderIds |-> QtyOf(orders[o].items, p)])

\* total quantity of product p added back to stock by cancel
RestoredQty(p) == SumSeq([o \in OrderIds |-> restored[o][p]])

\* total quantity of product p taken from stock by checkout
DecrementedQty(p) == stock0[p] - products[p].stock + RestoredQty(p)

Quiescent == \A r \in Req : Free(r)

\* no store owner has set the status of order o: every timeline entry is the
\* initial one or was written by the cancel handler
OnlyCancelled(o) ==
    \A i \in DOMAIN orders[o].timeline :
        orders[o].timeline[i].note \in {"Order placed", "Cancelled by customer"}

\* the cart lines of customer c sold by store s
CartLinesOf(c, s) == SelectSeq(carts[c], LAMBDA l : ProductStore[l.product] = s)

\* the stores that sell the lines of c's cart
CartStores(c) == {ProductStore[carts[c][i].product] : i \in DOMAIN carts[c]}

\* a cart line is available to the checkout request in slot r: its product is
\* active and, if it tracks stock, had enough stock when the request arrived
LineAvailable(r, l) ==
    /\ products[l.product].status = "active"
    /\ products[l.product].trackStock => req[r].stockBefore[l.product] >= l.quantity

AllAvailable(r) ==
    /\ \A i \in DOMAIN carts[req[r].user] : LineAvailable(r, carts[req[r].user][i])
    /\ \A s \in CartStores(req[r].user) : stores[s].isActive

\* the checkout request in slot r has created its orders and is about to clear
\* the cart and answer 201
CheckoutSucceeds(r) == req[r].pc = "saveCart"

CreatedBy(r) == {req[r].created[i] : i \in DOMAIN req[r].created}

(***************************************************************************)
(* C1: for every product, tracked or not, inventory.stock >= 0 in every    *)
(* state reachable by checkout and cancel from non-negative stock.         *)
(* Violated: checkout decrements the stock of a product that does not      *)
(* track stock below zero (and two interleaved checkouts do the same to a  *)
(* tracked product).                                                       *)
(***************************************************************************)
C1_StockNonNegative == \A p \in Products : products[p].stock >= 0

(***************************************************************************)
(* C2: two customers concurrently check out the last unit of a             *)
(* stock-tracked product (stock 1, quantity 1 each): exactly one order     *)
(* contains the line and the stock ends at 0, never negative.  Violated:   *)
(* both requests read stock 1 before either decrements.                    *)
(***************************************************************************)
C2_LastUnitOnce ==
    (/\ products["p1"].trackStock
     /\ stock0["p1"] = 1
     /\ RestoredQty("p1") = 0)
    => /\ ~ \E o1, o2 \in OrderIds :
              /\ orders[o1].customer = "c1"
              /\ orders[o2].customer = "c2"
              /\ QtyOf(orders[o1].items, "p1") = 1
              /\ QtyOf(orders[o2].items, "p1") = 1
       /\ products["p1"].stock >= 0

(***************************************************************************)
(* C3: in every reachable state, also after a storage operation has        *)
(* thrown or a request has stopped inside checkout, stock has been taken   *)
(* by checkout only for persisted orders: for every product the quantity   *)
(* decremented so far is at most the quantity on the persisted orders.     *)
(***************************************************************************)
C3_NoDecrementWithoutOrder ==
    \A p \in Products : DecrementedQty(p) <= OrderedQty(p)

\* a checkout has answered 500 after it took stock for an order it persisted
C3_Witness ==
    /\ resp.kind = "checkout"
    /\ resp.res = "ServerError"
    /\ \E p \in Products : DecrementedQty(p) > 0
    /\ Quiescent

(***************************************************************************)
(* C4: retrying a failed checkout with the same cart is safe: every cart   *)
(* line ends up in at most one persisted order and its product's stock is  *)
(* decremented at most once.  (No request of this model adds to a cart,    *)
(* so two orders of a customer with the same product come from the same    *)
(* cart line; the stock part is stated while only that customer has        *)
(* orders.)  Violated: a checkout that fails after order.save() leaves     *)
(* the order and the cart; the retry orders the same lines again.          *)
(***************************************************************************)
C4_RetrySafe ==
    \A c \in Customers, p \in Products :
        /\ Cardinality({o \in OrderIds : orders[o].customer = c
                                         /\ QtyOf(orders[o].items, p) > 0}) <= 1
        /\ (\A o \in OrderIds : orders[o].customer = c) =>
              \A i \in DOMAIN carts[c] :
                  carts[c][i].product = p => DecrementedQty(p) <= carts[c][i].quantity

(***************************************************************************)
(* C5: cancelling an order created by checkout, with nothing else in       *)
(* between, returns the stock of every product on its lines to the value   *)
(* before that checkout.  Stated for the only order of a serial behaviour, *)
(* right after its cancel has answered 200.  Violated: the order of a      *)
(* checkout that failed between order.save() and the stock update is       *)
(* cancelled, and cancel adds back what was never taken.                   *)
(***************************************************************************)
C5_CancelRestoresStock ==
    (/\ Quiescent
     /\ resp.kind = "cancel"
     /\ resp.res = "Cancelled"
     /\ Len(orders) = 1
     /\ orders[1].timeline = <<[status |-> "pending", note |-> "Order placed"],
                               [status |-> "cancelled", note |-> "Cancelled by customer"]>>)
    => \A p \in ProductsOf(orders[1].items) : products[p].stock = stock0[p]

(***************************************************************************)
(* C6: cancel on an order that is delivered, cancelled or refunded answers *)
(* NotCancellable, starts nothing, and leaves the orders (status,          *)
(* timeline) and every product's stock unchanged; so a second cancel in a  *)
(* row restores no stock.                                                  *)
(***************************************************************************)
C6_NotCancellable ==
    [][\A r \in Req, c \in Customers, o \in OrderIds :
          (/\ CancelFindOrder(r, c, o)
           /\ orders[o].customer = c
           /\ orders[o].status \in {"delivered", "cancelled", "refunded"})
          => /\ resp' = Response("cancel", c, "NotCancellable")
             /\ req' = req
             /\ orders' = orders
             /\ products' = products
             /\ restored' = restored]_vars

\* the second cancel of an order has been refused after the first restored its stock
C6_Witness ==
    /\ Quiescent
    /\ resp.kind = "cancel"
    /\ resp.res = "NotCancellable"
    /\ \E o \in OrderIds :
          /\ orders[o].status = "cancelled"
          /\ orders[o].customer = resp.user
          /\ \E p \in Products : restored[o][p] > 0

(***************************************************************************)
(* C7: under every interleaving of two concurrent cancels of the same      *)
(* cancellable order, each line's quantity is added back once: for an      *)
(* order that only cancel requests have touched, the quantity restored     *)
(* for a product never exceeds the quantity on the order's lines.          *)
(* Violated: both requests read the order before either saves it, and      *)
(* both restore.                                                           *)
(***************************************************************************)
C7_RestoreOnce ==
    \A o \in OrderIds, p \in Products :
        OnlyCancelled(o) => restored[o][p] <= QtyOf(orders[o].items, p)

(***************************************************************************)
(* C8: every persisted order has pricing.total = subtotal + deliveryFee +  *)
(* tax - discount, in every reachable state (after checkout, setStatus,    *)
(* cancel and rate).                                                       *)
(***************************************************************************)
C8_TotalInvariant ==
    \A o \in OrderIds :
        orders[o].pricing.total =
            orders[o].pricing.subtotal + orders[o].pricing.deliveryFee
            + orders[o].pricing.tax - orders[o].pricing.discount

\* an order with a delivery fee has been saved again after its creation
C8_Witness ==
    \E o \in OrderIds :
        /\ orders[o].pricing.deliveryFee > 0
        /\ Len(orders[o].timeline) > 1
        /\ orders[o].pricing.total > orders[o].pricing.subtotal

(***************************************************************************)
(* C9: a checkout of a cart whose lines are all available and whose        *)
(* sellers are all active creates one order per seller of the cart; the    *)
(* order has exactly that seller's cart lines (products and quantities),   *)
(* and its total is the sum of quantity x cart price over them plus the    *)
(* delivery fee.                                                           *)
(***************************************************************************)
C9_OneOrderPerSeller ==
    \A r \in Req :
        (CheckoutSucceeds(r) /\ AllAvailable(r)) =>
            LET c == req[r].user
            IN  /\ Len(req[r].created) = Cardinality(CartStores(c))
                /\ \A s \in CartStores(c) :
                      \E o \in CreatedBy(r) :
                          /\ orders[o].store = s
                          /\ orders[o].customer = c
                          /\ \A o2 \in CreatedBy(r) : orders[o2].store = s => o2 = o
                          /\ Len(orders[o].items) = Len(CartLinesOf(c, s))
                          /\ \A p \in Products :
                                QtyOf(orders[o].items, p) = QtyOf(CartLinesOf(c, s), p)
                          /\ orders[o].pricing.total =
                                SumSeq([i \in DOMAIN CartLinesOf(c, s) |->
                                          CartLinesOf(c, s)[i].quantity
                                          * CartLinesOf(c, s)[i].price])
                                + (IF req[r].deliveryType = "delivery"
                                   THEN stores[s].deliveryFee ELSE 0)

\* a cart of two sellers, all lines available, has become two orders
C9_Witness ==
    \E r \in Req :
        /\ CheckoutSucceeds(r)
        /\ AllAvailable(r)
        /\ Cardinality(CartStores(req[r].user)) = 2
        /\ Len(req[r].created) = 2
        /\ req[r].deliveryType = "delivery"

(***************************************************************************)
(* C10: a successful checkout decrements the stock of each product on an   *)
(* ordered line by that line's quantity and leaves the stock of every      *)
(* other product (skipped lines, skipped seller groups) unchanged.         *)
(***************************************************************************)
C10_StockFrame ==
    \A r \in Req :
        CheckoutSucceeds(r) =>
            \A p \in Products :
                products[p].stock =
                    req[r].stockBefore[p]
                    - SumSeq([i \in DOMAIN req[r].created |->
                                QtyOf(orders[req[r].created[i]].items, p)])

\* a checkout has ordered a line of quantity 2 and skipped another line
C10_Witness ==
    \E r \in Req :
        /\ CheckoutSucceeds(r)
        /\ \E i \in DOMAIN carts[req[r].user] :
              \A o \in CreatedBy(r) :
                  QtyOf(orders[o].items, carts[req[r].user][i].product) = 0
        /\ \E o \in CreatedBy(r) : QtyOf(orders[o].items, "p3") = 2
        /\ products["p3"].stock = req[r].stockBefore["p3"] - 2

(***************************************************************************)
(* C11: whenever checkout has created at least one order, the customer's   *)
(* cart has no lines afterwards.  Stated for serial behaviours, once the   *)
(* checkout has answered.  Violated: a checkout that fails after           *)
(* order.save() has created an order and leaves the cart as it was.        *)
(***************************************************************************)
C11_CartClearedAfterOrders ==
    \A c \in Customers :
        (/\ Quiescent
         /\ resp.kind = "checkout"
         /\ resp.user = c
         /\ \E o \in OrderIds : orders[o].customer = c)
        => carts[c] = <<>>

(***************************************************************************)
(* C12: when a checkout has left its loop, a cart line of an active seller *)
(* is on that seller's created order exactly when its product is active    *)
(* and, if it tracks stock, had at least the line's quantity in stock; the *)
(* product of an excluded line keeps its stock; a seller gets an order     *)
(* exactly when it is active and one of its lines is available, whatever   *)
(* happens to the other sellers.                                           *)
(***************************************************************************)
C12_LineFilter ==
    \A r \in Req :
        CheckoutSucceeds(r) =>
            LET c == req[r].user
                Ordered(l) == \E o \in CreatedBy(r) :
                                 /\ orders[o].store = ProductStore[l.product]
                                 /\ QtyOf(orders[o].items, l.product) = l.quantity
            IN  /\ \A i \in DOMAIN carts[c] :
                      LET l == carts[c][i]
                      IN  /\ stores[ProductStore[l.product]].isActive =>
                                (Ordered(l) <=> LineAvailable(r, l))
                          /\ ~Ordered(l) =>
                                products[l.product].stock = req[r].stockBefore[l.product]
                /\ \A s \in CartStores(c) :
                      (\E o \in CreatedBy(r) : orders[o].store = s)
                      <=> (/\ stores[s].isActive
                           /\ \E i \in DOMAIN CartLinesOf(c, s) :
                                 LineAvailable(r, CartLinesOf(c, s)[i]))

\* every line of seller s1 was excluded (p1 out of stock, p2 inactive) and the
\* order of seller s2 was still created
C12_Witness ==
    \E r \in Req :
        /\ CheckoutSucceeds(r)
        /\ req[r].user = "c1"
        /\ products["p1"].trackStock
        /\ req[r].stockBefore["p1"] < 1
        /\ products["p2"].status # "active"
        /\ \A o \in CreatedBy(r) : orders[o].store = "s2"
        /\ CreatedBy(r) # {}

(***************************************************************************)
(* C13: a checkout none of whose seller groups yields an order (seller     *)
(* inactive or every line excluded) answers NoValidItems, and by then it   *)
(* has created no order and left the cart's lines, every product's stock   *)
(* and every seller's order count and revenue as they were on arrival.     *)
(***************************************************************************)
C13_NoValidItems ==
    [][\A r \in Req :
          (/\ CheckoutFindStore(r)
           /\ req[r].created = <<>>
           /\ req'[r] = Idle)
          => /\ resp' = Response("checkout", req[r].user, "NoValidItems")
             /\ orders' = orders
             /\ Len(orders) = req[r].ordersBefore
             /\ carts' = carts
             /\ Len(carts[req[r].user]) = Len(req[r].cart)
             /\ \A i \in DOMAIN req[r].cart :
                   /\ carts[req[r].user][i].product = req[r].cart[i].product
                   /\ carts[req[r].user][i].quantity = req[r].cart[i].quantity
             /\ products' = products
             /\ \A p \in Products : products[p].stock = req[r].stockBefore[p]
             /\ stores' = stores
             /\ \A s \in Stores :
                   <<stores[s].totalOrders, stores[s].totalRevenue>> = req[r].statsBefore[s]]_vars

\* c1's checkout of a cart of two inactive sellers has been refused and the
\* cart still has its three lines
C13_Witness ==
    /\ Quiescent
    /\ resp = Response("checkout", "c1", "NoValidItems")
    /\ \A s \in Stores : ~stores[s].isActive
    /\ Len(carts["c1"]) = 3
    /\ orders = <<>>

\* the orders of seller s that carry a rating
RatedOrders(s) == {o \in OrderIds : orders[o].store = s /\ orders[o].rating # 0}

(***************************************************************************)
(* C14: rate on an order that already has a rating answers AlreadyRated    *)
(* and leaves the orders and the sellers' rating average and count         *)
(* unchanged.  Violated: the delivered check comes first, and the status   *)
(* route lets the store owner move a rated order out of delivered; the     *)
(* second rate is then refused as not delivered.                           *)
(***************************************************************************)
C14_AlreadyRated ==
    [][\A r \in Req, c \in Customers, o \in OrderIds, v \in RatingInputs :
          (/\ RateFindOrder(r, c, o, v)
           /\ orders[o].customer = c
           /\ orders[o].rating # 0)
          => /\ resp' = Response("rate", c, "AlreadyRated")
             /\ req' = req
             /\ orders' = orders
             /\ stores' = stores]_vars

(***************************************************************************)
(* C15: seller rating aggregation loses no update: once the rate requests  *)
(* have been answered and no operation has thrown, a seller's rating.count *)
(* is at least the number of its rated orders.  Violated: two requests on  *)
(* two orders of the seller both read the count before either writes it.   *)
(***************************************************************************)
C15_NoLostRating ==
    (Quiescent /\ fails = 0) =>
        \A s \in Stores : stores[s].ratingCount >= Cardinality(RatedOrders(s))

(***************************************************************************)
(* C16: the order's rating and the seller's aggregate are persisted        *)
(* together: once a rate request has been answered, also with a failure    *)
(* between the writes, every rated order is counted in its seller's        *)
(* rating.count.  Violated: order.save() is followed by two more awaited   *)
(* operations on the store; when one throws, the order stays rated and     *)
(* the aggregate is not updated.                                           *)
(***************************************************************************)
C16_RatingPersistedTogether ==
    (/\ Quiescent
     /\ resp.kind = "rate")
    => \A s \in Stores : Cardinality(RatedOrders(s)) <= stores[s].ratingCount

(***************************************************************************)
(* C17: for every order in every reachable state, the timeline is not      *)
(* empty and its last entry's status is the order's status.  Violated      *)
(* under interleaving: a status request that sets the status the order     *)
(* already had when loaded writes only its timeline entry; when another    *)
(* request has changed the status in between, the last entry differs from  *)
(* the status.                                                             *)
(***************************************************************************)
C17_TimelineLast ==
    \A o \in OrderIds :
        /\ orders[o].timeline # <<>>
        /\ orders[o].timeline[Len(orders[o].timeline)].status = orders[o].status

(***************************************************************************)
(* C19: cancelled and refunded are terminal: no step changes the status    *)
(* of an order that is cancelled or refunded.  Violated: the status route  *)
(* sets any status the validator accepts on an order in any status.        *)
(***************************************************************************)
C19_TerminalStates ==
    [][\A o \in OrderIds :
          orders[o].status \in {"cancelled", "refunded"}
          => orders'[o].status = orders[o].status]_vars

\* the cart documents of customer c: the one Cart.findOne returns and the others
CartDocs(c) == (IF cartMeta[c].exists THEN {carts[c]} ELSE {})
               \cup {cartMeta[c].others[i] : i \in DOMAIN cartMeta[c].others}

(***************************************************************************)
(* C18: in every reachable state a cart holds at most one line per         *)
(* product.  Violated: two POST /add requests for a product that has no    *)
(* line yet both find no existing item and both push a new one.            *)
(***************************************************************************)
C18_OneLinePerProduct ==
    \A c \in Customers : \A items \in CartDocs(c) :
        \A i, j \in DOMAIN items : items[i].product = items[j].product => i = j

(***************************************************************************)
(* C20: concurrent POST /add requests lose no update: once every request   *)
(* of the behaviour has been answered and each was a POST /add answered    *)
(* 200, for a product of its own, every added product is a line of the     *)
(* customer's cart.  Violated: with no cart document yet, both requests    *)
(* create one; Cart.findOne returns the first, which lacks the second      *)
(* product.                                                                *)
(***************************************************************************)
C20_NoLostAdd ==
    (/\ Quiescent
     /\ Cardinality(added) = ops)
    => \A a \in added : a[2] \in ProductsOf(carts[a[1]])

(***************************************************************************)
(* C21: the unit price of every order line is the price kept in the cart   *)
(* line it was made from, not the product's selling price at checkout, and *)
(* the line total is that price times the quantity.  (No cart route runs   *)
(* in these behaviours: an order line's cart line is the customer's        *)
(* initial line for the product.)                                          *)
(***************************************************************************)
C21_CartPriceUsed ==
    /\ \A o \in OrderIds : \A i \in DOMAIN orders[o].items :
          LET l == orders[o].items[i]
          IN  /\ l.price = CartPrice[l.product]
              /\ l.total = CartPrice[l.product] * l.quantity
    /\ \A r \in Req :
          req[r].kind = "checkout" /\ req[r].doc # NoDoc
          => \A i \in DOMAIN req[r].doc.items :
                \E j \in DOMAIN req[r].cart :
                    /\ req[r].cart[j].product = req[r].doc.items[i].product
                    /\ req[r].cart[j].price = req[r].doc.items[i].price

\* a checkout has made an order of p1 at the cart's price while p1 sells at
\* another price
C21_Witness ==
    /\ resp = Response("checkout", "c1", "OrdersCreated")
    /\ \E o \in OrderIds : \E i \in DOMAIN orders[o].items :
          /\ orders[o].customer = "c1"
          /\ orders[o].items[i].product = "p1"
          /\ orders[o].items[i].price = CartPrice["p1"]
          /\ orders[o].items[i].price # SellingPrice["p1"]

(***************************************************************************)
(* C22: removing a product is idempotent.  A DELETE /remove for a product  *)
(* that has no line in the customer's cart is not refused and leaves the   *)
(* cart's lines unchanged; a DELETE /remove that reaches its save answers  *)
(* ItemRemoved and leaves the cart without a line for the product, so a    *)
(* second one finds nothing to change.  Violated: a customer who has no    *)
(* cart document yet is answered 404 'Cart not found'.                     *)
(***************************************************************************)
C22_RemoveIdempotent ==
    [][\A r \in Req :
          /\ \A c \in Customers, p \in Products :
                (RemoveFindCart(r, c, p) /\ p \notin ProductsOf(carts[c]))
                => /\ carts' = carts
                   /\ req'[r].pc = "removeSave"
                   /\ req'[r].delta = NoDelta
          /\ RemoveSave(r)
             => /\ resp' = Response("remove", req[r].user, "ItemRemoved")
                /\ carts'[req[r].user] = removeItem(carts[req[r].user], req[r].product)
                /\ req[r].product \notin ProductsOf(carts'[req[r].user])
                /\ \A c \in Customers : c # req[r].user => carts'[c] = carts[c]]_vars

(***************************************************************************)
(* C23: in every reachable state a customer has at most one cart           *)
(* document, also when GET / and POST /add requests overlap while the      *)
(* customer has none.  Violated: both requests find no cart and both       *)
(* insert one.                                                             *)
(***************************************************************************)
C23_OneCartPerCustomer ==
    \A c \in Customers :
        Len(cartMeta[c].others) + (IF cartMeta[c].exists THEN 1 ELSE 0) <= 1

(***************************************************************************)
(* C24: with one request served at a time, the save of a status request    *)
(* sets the order's status to the new status, appends exactly one timeline *)
(* entry carrying the new status and the note, marks the order delivered   *)
(* exactly when the new status is delivered, and leaves the order's lines  *)
(* and pricing, every other order, every product's stock and every         *)
(* seller's statistics unchanged.                                          *)
(***************************************************************************)
C24_SetStatusFrame ==
    [][\A r \in Req :
          StatusSave(r)
          => LET o == req[r].orderId
                 entry == req[r].doc.timeline[Len(req[r].doc.timeline)]
             IN  /\ orders'[o].status = entry.status
                 /\ entry.status = req[r].doc.status
                 /\ orders'[o].timeline = Append(orders[o].timeline, entry)
                 /\ orders'[o].delivered =
                       (IF entry.status = "delivered" THEN TRUE ELSE orders[o].delivered)
                 /\ orders'[o].items = orders[o].items
                 /\ orders'[o].pricing = orders[o].pricing
                 /\ orders'[o].customer = orders[o].customer
                 /\ orders'[o].store = orders[o].store
                 /\ orders'[o].rating = orders[o].rating
                 /\ Len(orders') = Len(orders)
                 /\ \A i \in OrderIds : i # o => orders'[i] = orders[i]
                 /\ products' = products
                 /\ stores' = stores
                 /\ carts' = carts]_vars

\* the owner of s1 has set a pending order to delivered: two timeline
\* entries, the last one delivered, and the stock it took is still taken
C24_Witness ==
    /\ resp = Response("status", "o1", "StatusUpdated")
    /\ ops > 0
    /\ \E o \in OrderIds :
          /\ orders[o].status = "delivered"
          /\ orders[o].delivered
          /\ Len(orders[o].timeline) = 2
          /\ orders[o].timeline[2] = [status |-> "delivered", note |-> ""]
          /\ QtyOf(orders[o].items, "p1") > 0

(***************************************************************************)
(* C25, as stated: with one request served at a time and no storage        *)
(* failure, a PUT /update that ends leaves the cart without the product's  *)
(* line when the quantity is 0; with the line's quantity set to q and      *)
(* every other line as it was when q > 0 and the product has a line; and   *)
(* unchanged when q > 0 and the product has no line.  Violated: for a      *)
(* product that is not active, or that tracks stock and has less than q,   *)
(* the request is refused and the line keeps its quantity.                 *)
(***************************************************************************)
C25_UpdateSetsQuantity ==
    [][\A r \in Req :
          (/\ req[r].kind = "update"
           /\ req'[r] = Idle
           /\ fails' = fails)
          => LET c == req[r].user
                 p == req[r].product
                 q == req[r].quantity
                 i == IndexOf(carts[c], p, 1)
             IN  /\ q = 0 => carts'[c] = removeItem(carts[c], p)
                 /\ (q > 0 /\ i # 0) => carts'[c] = [carts[c] EXCEPT ![i].quantity = q]
                 /\ (q > 0 /\ i = 0) => carts'[c] = carts[c]]_vars

(***************************************************************************)
(* C25, amended: as above, but a quantity q > 0 is set only when the       *)
(* product is active and, if it tracks stock, has at least q in stock;     *)
(* otherwise the request is refused and the cart is unchanged.  A request  *)
(* of a customer without a cart document is refused on arrival and         *)
(* changes no cart.                                                        *)
(***************************************************************************)
C25_UpdateSetsQuantityIfAvailable ==
    [][\A r \in Req :
          /\ (/\ req[r].kind = "update"
              /\ req'[r] = Idle
              /\ fails' = fails)
             => LET c == req[r].user
                    p == req[r].product
                    q == req[r].quantity
                    i == IndexOf(carts[c], p, 1)
                    ok == /\ products[p].status = "active"
                          /\ ~(products[p].trackStock /\ products[p].stock < q)
                IN  /\ q = 0 => carts'[c] = removeItem(carts[c], p)
                    /\ (q > 0 /\ ok)
                       => /\ resp' = Response("update", c, "CartUpdated")
                          /\ i # 0 => carts'[c] = [carts[c] EXCEPT ![i].quantity = q]
                          /\ i = 0 => carts'[c] = carts[c]
                    /\ (q > 0 /\ ~ok)
                       => /\ resp'.res \in {"ProductNotAvailable", "InsufficientStock"}
                          /\ carts'[c] = carts[c]
                    /\ \A d \in Customers : d # c => carts'[d] = carts[d]
          /\ \A c \in Customers, p \in Products, q \in {0} \cup Quantities :
                (UpdateFindCart(r, c, p, q) /\ ~cartMeta[c].exists)
                => /\ carts' = carts
                   /\ resp' = Response("update", c, "CartNotFound")]_vars

\* c1's line of p3 has been set from 2 to 1 and its line of p2 is as it was
C25_Witness ==
    /\ resp = Response("update", "c1", "CartUpdated")
    /\ carts["c1"] = <<[Line("p3", 2) EXCEPT !.quantity = 1], Line("p2", 1)>>

\* the orders of seller s
OrdersOf(s) == {o \in OrderIds : orders[o].store = s}

C27_StockConservation ==
    (Quiescent /\ fails = 0)
    => \A p \in Products :
          products[p].stock
          + SumSeq([o \in DOMAIN orders |->
                      IF orders[o].status # "cancelled"
                      THEN QtyOf(orders[o].items, p) ELSE 0])
          = stock0[p]

(***************************************************************************)
(* C28: under every interleaving of two checkouts of the same customer on  *)
(* the same cart, with no storage failure, each cart line becomes at most  *)
(* one order line and its product's stock is taken at most once: when both *)
(* have been answered, no product is on two of the orders they created,    *)
(* and the stock taken for it is at most the line's quantity.  Violated:   *)
(* both requests read the cart before either clears it, and each creates   *)
(* the orders and decrements the stock.                                    *)
(***************************************************************************)
C28_OneOrderLinePerCartLine ==
    (/\ Quiescent
     /\ fails = 0
     /\ ops = 2
     /\ \E c \in Customers : \A o \in OrderIds : orders[o].customer = c)
    => \A p \in Products :
          /\ Cardinality({o \in OrderIds : QtyOf(orders[o].items, p) > 0}) <= 1
          /\ \A o \in OrderIds :
                QtyOf(orders[o].items, p) > 0
                => stock0[p] - products[p].stock <= QtyOf(orders[o].items, p)

(***************************************************************************)
(* C30: GET /:id answers with the order exactly when the user is the       *)
(* customer who placed it or the owner of the store it belongs to, and     *)
(* with access denied otherwise.  Violated: every store owner is given     *)
(* every order.                                                            *)
(***************************************************************************)
C30_GetOrderAccess ==
    [][\A r \in Req : \A u \in Customers \cup Owners : \A o \in OrderIds :
          GetOrder(r, u, o)
          => IF u = orders[o].customer \/ u = StoreOwner[orders[o].store]
             THEN resp' = Response("getOrder", u, "Order")
             ELSE resp' = Response("getOrder", u, "AccessDenied")]_vars

(***************************************************************************)
(* C29: a product added by a POST /add that was answered 200 while a       *)
(* checkout of the same customer was in progress is not lost: when that    *)
(* checkout ends, the product is on one of the customer's orders created   *)
(* since the checkout read the cart, or is a line of the cart.  Violated:  *)
(* the add raises the quantity of a line the checkout has skipped (its     *)
(* stock was taken after the add had read the product); the checkout then  *)
(* clears the cart, line included.                                         *)
(***************************************************************************)
C29_AddNotLost ==
    [][\A q \in Req :
          (req[q].kind = "checkout" /\ req'[q] = Idle)
          => \A p \in req[q].addedMeanwhile :
                \/ p \in ProductsOf(carts'[req[q].user])
                \/ \E o \in DOMAIN orders' :
                      /\ o > req[q].ordersBefore
                      /\ orders'[o].customer = req[q].user
                      /\ QtyOf(orders'[o].items, p) > 0]_vars

====
